---- MODULE Spec2Model ----
(***************************************************************************)
(* Model of the rank-augmented AVL tree of src/base/avl.py (class AVLTree) *)
(* and of the public operations that drive it.  A tree is a nested record; *)
(* the Python methods mutate nodes in place, the operators below return    *)
(* the node as it is after the method has run.                             *)
(***************************************************************************)
EXTENDS Integers, Sequences, FiniteSets, TLC

\* ------------------------------------------------------------------ bounds
MaxKey == 4
MaxFailedDeletes == 1
MaxTableSize == 3
MaxCalls == 6
MaxK == 5
MaxAdds == 2
MaxVendors == 3
RecursionLimit == 6
MaxPrimeArg == 120

Keys == 1..MaxKey
Ranks == 0..(MaxKey + 1)

\* the buy prices of the documented inventory (game.py, docstring of
\* add_potions_to_inventory) in the order they are inserted
ScenarioOrder == <<10, 5, 20, 1, 25>>
ScenarioKeys == {ScenarioOrder[i] : i \in 1..Len(ScenarioOrder)}
ScenarioRanks == 0..(Len(ScenarioOrder) + 1)
AllKeys == Keys \cup ScenarioKeys

\* ------------------------------------------------------------------- nodes
\* None
NIL == [nil |-> TRUE]

\* AVLTreeNode(key, item): a fresh leaf
AVLTreeNode(key, item) ==
  [key |-> key, item |-> item, left |-> NIL, right |-> NIL,
   height |-> 1, left_counter |-> 0, right_counter |-> 0]

Max(a, b) == IF a >= b THEN a ELSE b

\* the element of a one-element set; Only({e(x) : x \in {v}}) is e(v) with v
\* worked out once
Only(S) == CHOOSE x \in S : TRUE

get_height(current) ==
  IF current # NIL THEN current.height ELSE 0

get_left_counter(current) ==
  IF current # NIL /\ current.left # NIL THEN current.left_counter ELSE 0

get_right_counter(current) ==
  IF current # NIL /\ current.right # NIL THEN current.right_counter ELSE 0

get_total_counter(current) ==
  IF current # NIL
    THEN get_left_counter(current) + get_right_counter(current)
    ELSE 0

get_balance(current) ==
  IF current = NIL THEN 0
  ELSE get_height(current.right) - get_height(current.left)

update_height(current) ==
  IF current = NIL THEN current
  ELSE [current EXCEPT
          !.height = Max(get_height(current.left), get_height(current.right)) + 1]

\* a recount that forgets to count the child itself
update_counter_no_self(current) ==
  IF current = NIL THEN current
  ELSE LET c1 == IF current.right # NIL
                   THEN [current EXCEPT
                           !.right_counter = get_total_counter(current.right)]
                   ELSE current
       IN IF c1.left # NIL
            THEN [c1 EXCEPT !.left_counter = get_total_counter(c1.left)]
            ELSE c1

\* a recount that refreshes the left counter only
update_counter_left_only(current) ==
  IF current = NIL THEN current
  ELSE IF current.left # NIL
    THEN [current EXCEPT !.left_counter = get_total_counter(current.left) + 1]
    ELSE current

update_counter(current) ==
  IF current = NIL THEN current
  ELSE LET c1 == IF current.right # NIL
                   THEN [current EXCEPT
                           !.right_counter = get_total_counter(current.right) + 1]
                   ELSE current
       IN IF c1.left # NIL
            THEN [c1 EXCEPT !.left_counter = get_total_counter(c1.left) + 1]
            ELSE c1

\* a left rotation that leaves the child under current as well
left_rotate_keeps_child(current) ==
  IF current.right # NIL
    THEN LET child == current.right
             cur1  == update_counter(update_height(current))
             ch1   == [child EXCEPT !.left = cur1]
         IN update_counter(update_height(ch1))
    ELSE NIL

\* a left rotation that hands over the wrong grandchild
left_rotate_wrong_grandchild(current) ==
  IF current.right # NIL
    THEN LET child == current.right
             cur1  == update_counter(update_height(
                        [current EXCEPT !.right = child.right]))
             ch1   == [child EXCEPT !.left = cur1]
         IN update_counter(update_height(ch1))
    ELSE NIL

\* left_rotate returns None when current has no right child
left_rotate(current) ==
  IF current.right # NIL
    THEN LET child == current.right
             cur1  == update_counter(update_height(
                        [current EXCEPT !.right = child.left]))
             ch1   == [child EXCEPT !.left = cur1]
         IN update_counter(update_height(ch1))
    ELSE NIL

\* a right rotation that forgets update_height(current)
right_rotate_stale_height(current) ==
  IF current.left # NIL
    THEN LET child == current.left
             cur1  == update_counter([current EXCEPT !.left = child.right])
             ch1   == [child EXCEPT !.right = cur1]
         IN update_counter(update_height(ch1))
    ELSE NIL

right_rotate(current) ==
  IF current.left # NIL
    THEN LET child == current.left
             cur1  == update_counter(update_height(
                        [current EXCEPT !.left = child.right]))
             ch1   == [child EXCEPT !.right = cur1]
         IN update_counter(update_height(ch1))
    ELSE NIL

\* a rebalance that repairs right-heavy nodes only
rebalance_right_heavy_only(current) ==
  IF get_balance(current) >= 2
    THEN LET child == current.right
             cur1  == IF get_height(child.left) > get_height(child.right)
                        THEN [current EXCEPT !.right = right_rotate(child)]
                        ELSE current
         IN left_rotate(cur1)
  ELSE current

\* a rebalance that never does the first rotation of a double rotation
rebalance_single_only(current) ==
  IF get_balance(current) >= 2 THEN left_rotate(current)
  ELSE IF get_balance(current) <= -2 THEN right_rotate(current)
  ELSE current

rebalance(current) ==
  IF get_balance(current) >= 2
    THEN LET child == current.right
             cur1  == IF get_height(child.left) > get_height(child.right)
                        THEN [current EXCEPT !.right = right_rotate(child)]
                        ELSE current
         IN left_rotate(cur1)
  ELSE IF get_balance(current) <= -2
    THEN LET child == current.left
             cur1  == IF get_height(child.right) > get_height(child.left)
                        THEN [current EXCEPT !.left = left_rotate(child)]
                        ELSE current
         IN right_rotate(cur1)
  ELSE current

\* the rotations rebalance(current) asks for, in the order of the calls:
\* which rotation and the node it is called on
rebalance_rotations(current) ==
  IF get_balance(current) >= 2
    THEN LET child == current.right
         IN IF get_height(child.left) > get_height(child.right)
              THEN <<[rotate |-> "right", on |-> child],
                     [rotate |-> "left",
                      on |-> [current EXCEPT !.right = right_rotate(child)]]>>
              ELSE <<[rotate |-> "left", on |-> current]>>
  ELSE IF get_balance(current) <= -2
    THEN LET child == current.left
         IN IF get_height(child.right) > get_height(child.left)
              THEN <<[rotate |-> "left", on |-> child],
                     [rotate |-> "right",
                      on |-> [current EXCEPT !.left = left_rotate(child)]]>>
              ELSE <<[rotate |-> "right", on |-> current]>>
  ELSE <<>>

\* the number of rotations asked for by the rebalance calls of one operation
RECURSIVE count_rotations(_)
count_rotations(calls) ==
  IF calls = <<>> THEN 0
  ELSE Len(rebalance_rotations(Head(calls))) + count_rotations(Tail(calls))

\* ------------------------------------------------- BinarySearchTree helpers
is_leaf(current) == current.left = NIL /\ current.right = NIL

RECURSIVE get_minimal(_)
get_minimal(current) ==
  IF current.left # NIL THEN get_minimal(current.left) ELSE current

\* in-order successor: the leftmost node of the right subtree
get_successor(current) ==
  IF current.right = NIL THEN NIL ELSE get_minimal(current.right)

\* ------------------------------------------------------- insert and delete
\* The result of a recursive call: raised is TRUE when ValueError propagates
\* out of it, node is the returned subtree root (when raised: the object
\* `current` as the call left it), dlen is the change made to self.length.
\* delete_aux also reports in spliced whether a node with two children was
\* overwritten by its successor.
\* the end of insert_aux and delete_aux once the recursive call returned
\* sub: update_height, update_counter, return rebalance(current); calls
\* keeps the nodes handed to rebalance, in the order of the calls
rebalanced(sub, current) ==
  Only({[sub EXCEPT !.node = rebalance(cur), !.calls = Append(@, cur)]
        : cur \in {update_counter(update_height(current))}})

RECURSIVE insert_aux(_, _, _)
RECURSIVE delete_aux(_, _)

\* a new leaf that is not counted in self.length
insert_leaf_no_length(key, item) ==
  rebalanced([raised |-> FALSE, node |-> NIL, dlen |-> 0, calls |-> <<>>],
             AVLTreeNode(key, item))

\* base case at the leaf: create the node, self.length += 1
insert_leaf(key, item) ==
  rebalanced([raised |-> FALSE, node |-> NIL, dlen |-> 1, calls |-> <<>>],
             AVLTreeNode(key, item))

\* a duplicate that is counted before it is rejected
insert_duplicate_counted(current) ==
  [raised |-> TRUE, node |-> current, dlen |-> 1, calls |-> <<>>]

\* key == current.key: raise ValueError('Inserting duplicate item')
insert_duplicate(current) ==
  [raised |-> TRUE, node |-> current, dlen |-> 0, calls |-> <<>>]

insert_aux(current, key, item) ==
  IF current = NIL
    THEN insert_leaf(key, item)
  ELSE IF key < current.key
    THEN Only({IF sub.raised
                 THEN [sub EXCEPT !.node = [current EXCEPT !.left = sub.node]]
                 ELSE rebalanced(sub, [current EXCEPT !.left = sub.node])
               : sub \in {insert_aux(current.left, key, item)}})
  ELSE IF key > current.key
    THEN Only({IF sub.raised
                 THEN [sub EXCEPT !.node = [current EXCEPT !.right = sub.node]]
                 ELSE rebalanced(sub, [current EXCEPT !.right = sub.node])
               : sub \in {insert_aux(current.right, key, item)}})
  ELSE insert_duplicate(current)

\* a splice that copies the successor's key but not its item
splice_successor_key_only(current, succ) ==
  [current EXCEPT !.key = succ.key]

\* current.key = succ.key; current.item = succ.item
splice_successor(current, succ) ==
  [current EXCEPT !.key = succ.key, !.item = succ.item]

delete_aux(current, key) ==
  IF current = NIL
    THEN [raised |-> TRUE, node |-> NIL, dlen |-> 0, spliced |-> FALSE,
          calls |-> <<>>]
  ELSE IF key < current.key
    THEN LET cur1 == [current EXCEPT !.left_counter = @ - 1]
         IN Only({IF sub.raised
                    THEN [sub EXCEPT !.node = [cur1 EXCEPT !.left = sub.node]]
                    ELSE rebalanced(sub, [cur1 EXCEPT !.left = sub.node])
                  : sub \in {delete_aux(cur1.left, key)}})
  ELSE IF key > current.key
    THEN LET cur1 == [current EXCEPT !.right_counter = @ - 1]
         IN Only({IF sub.raised
                    THEN [sub EXCEPT !.node = [cur1 EXCEPT !.right = sub.node]]
                    ELSE rebalanced(sub, [cur1 EXCEPT !.right = sub.node])
                  : sub \in {delete_aux(cur1.right, key)}})
  ELSE IF is_leaf(current)
    THEN [raised |-> FALSE, node |-> NIL, dlen |-> -1,
          spliced |-> FALSE, calls |-> <<>>]
  ELSE IF current.left = NIL
    THEN [raised |-> FALSE, node |-> current.right, dlen |-> -1,
          spliced |-> FALSE, calls |-> <<>>]
  ELSE IF current.right = NIL
    THEN [raised |-> FALSE, node |-> current.left, dlen |-> -1,
          spliced |-> FALSE, calls |-> <<>>]
  ELSE Only({Only({IF sub.raised
                     THEN [sub EXCEPT !.node = [cur1 EXCEPT !.right = sub.node],
                                      !.spliced = TRUE]
                     ELSE [rebalanced(sub, [cur1 EXCEPT !.right = sub.node])
                           EXCEPT !.spliced = TRUE]
                   : sub \in {delete_aux(cur1.right, cur1.key)}})
             : cur1 \in {splice_successor(current, get_successor(current))}})

\* ---------------------------------------------------- order-statistic query
\* node is the returned node; error is TRUE when the descent dereferences
\* None (AttributeError); visited counts the calls of the helper; fallback is
\* TRUE when the answer comes from one of the `return root` lines that guard
\* an absent child.
RECURSIVE kth_largest_helper(_, _)

\* a descent that does not adjust the rank when it goes left
kth_largest_helper_same_rank(root, k) ==
  IF k = get_right_counter(root) + 1
    THEN [node |-> root, error |-> FALSE, visited |-> 1, fallback |-> FALSE]
  ELSE IF root = NIL
    THEN [node |-> NIL, error |-> TRUE, visited |-> 1, fallback |-> FALSE]
  ELSE IF k < get_right_counter(root) + 1
    THEN IF root.right = NIL
           THEN [node |-> root, error |-> FALSE, visited |-> 1,
                 fallback |-> TRUE]
           ELSE LET sub == kth_largest_helper(root.right, k)
                IN [sub EXCEPT !.visited = @ + 1]
  ELSE IF root.left = NIL
         THEN [node |-> root, error |-> FALSE, visited |-> 1,
               fallback |-> TRUE]
         ELSE LET sub == kth_largest_helper(root.left, k)
              IN [sub EXCEPT !.visited = @ + 1]

\* a descent without the guards that return root when the child is absent
kth_largest_helper_no_fallback(root, k) ==
  IF k = get_right_counter(root) + 1
    THEN [node |-> root, error |-> FALSE, visited |-> 1, fallback |-> FALSE]
  ELSE IF root = NIL
    THEN [node |-> NIL, error |-> TRUE, visited |-> 1, fallback |-> FALSE]
  ELSE IF k < get_right_counter(root) + 1
    THEN LET sub == kth_largest_helper(root.right, k)
         IN [sub EXCEPT !.visited = @ + 1]
  ELSE LET sub == kth_largest_helper(root.left, k - root.right_counter - 1)
       IN [sub EXCEPT !.visited = @ + 1]

\* a descent that, where the needed child is absent, calls itself once more
\* on the same node with the rank that node answers
kth_largest_helper_revisits(root, k) ==
  IF k = get_right_counter(root) + 1
    THEN [node |-> root, error |-> FALSE, visited |-> 1, fallback |-> FALSE]
  ELSE IF root = NIL
    THEN [node |-> NIL, error |-> TRUE, visited |-> 1, fallback |-> FALSE]
  ELSE IF k < get_right_counter(root) + 1
    THEN LET sub == IF root.right = NIL
                      THEN kth_largest_helper(root, get_right_counter(root) + 1)
                      ELSE kth_largest_helper(root.right, k)
         IN [sub EXCEPT !.visited = @ + 1]
  ELSE LET sub == IF root.left = NIL
                    THEN kth_largest_helper(root, get_right_counter(root) + 1)
                    ELSE kth_largest_helper(root.left,
                                            k - root.right_counter - 1)
       IN [sub EXCEPT !.visited = @ + 1]

\* a descent that stops at the first node it sees when k is not positive
kth_largest_helper_nonpositive_stops(root, k) ==
  IF k <= 0 /\ root # NIL
    THEN [node |-> root, error |-> FALSE, visited |-> 1, fallback |-> TRUE]
  ELSE IF k = get_right_counter(root) + 1
      THEN [node |-> root, error |-> FALSE, visited |-> 1, fallback |-> FALSE]
    ELSE IF root = NIL
      THEN [node |-> NIL, error |-> TRUE, visited |-> 1, fallback |-> FALSE]
    ELSE IF k < get_right_counter(root) + 1
      THEN IF root.right = NIL
             THEN [node |-> root, error |-> FALSE, visited |-> 1,
                   fallback |-> TRUE]
             ELSE LET sub == kth_largest_helper(root.right, k)
                  IN [sub EXCEPT !.visited = @ + 1]
    ELSE IF root.left = NIL
           THEN [node |-> root, error |-> FALSE, visited |-> 1,
                 fallback |-> TRUE]
           ELSE LET sub == kth_largest_helper(root.left,
                                              k - root.right_counter - 1)
                IN [sub EXCEPT !.visited = @ + 1]

kth_largest_helper(root, k) ==
  IF k = get_right_counter(root) + 1
    THEN [node |-> root, error |-> FALSE, visited |-> 1, fallback |-> FALSE]
  ELSE IF root = NIL
    THEN [node |-> NIL, error |-> TRUE, visited |-> 1, fallback |-> FALSE]
  ELSE IF k < get_right_counter(root) + 1
    THEN IF root.right = NIL
           THEN [node |-> root, error |-> FALSE, visited |-> 1,
                 fallback |-> TRUE]
           ELSE LET sub == kth_largest_helper(root.right, k)
                IN [sub EXCEPT !.visited = @ + 1]
  ELSE IF root.left = NIL
         THEN [node |-> root, error |-> FALSE, visited |-> 1,
               fallback |-> TRUE]
         ELSE LET sub == kth_largest_helper(root.left,
                                            k - root.right_counter - 1)
              IN [sub EXCEPT !.visited = @ + 1]

kth_largest(root, k) == kth_largest_helper(root, k)

\* ------------------------------------------------------ reading of a tree
RECURSIVE InOrder(_)
InOrder(n) ==
  IF n = NIL THEN <<>>
  ELSE InOrder(n.left) \o <<[key |-> n.key, item |-> n.item]>> \o InOrder(n.right)

RECURSIVE Size(_)
Size(n) == IF n = NIL THEN 0 ELSE Size(n.left) + 1 + Size(n.right)

RECURSIVE Height(_)
Height(n) == IF n = NIL THEN 0 ELSE 1 + Max(Height(n.left), Height(n.right))

RECURSIVE Nodes(_)
Nodes(n) == IF n = NIL THEN {} ELSE {n} \cup Nodes(n.left) \cup Nodes(n.right)

KeysOf(n) == {m.key : m \in Nodes(n)}

\* key -> item, 0 for a key that is not stored
Mapping(n) ==
  [k \in AllKeys |-> IF \E m \in Nodes(n) : m.key = k
                    THEN (CHOOSE m \in Nodes(n) : m.key = k).item
                    ELSE 0]

\* the keys of s in descending order
RECURSIVE SortedDesc(_)
SortedDesc(s) ==
  IF s = {} THEN <<>>
  ELSE LET m == CHOOSE x \in s : \A y \in s : y <= x
       IN <<m>> \o SortedDesc(s \ {m})

\* ------------------------------------------------- LinearProbePotionTable
\* A potion name is the tuple of its character codes.  The probe statistics
\* (conflict_count, probe_total, probe_max) are counters that nothing reads
\* back into the control flow; they are left out.
HASH_BASE == 27183

RECURSIVE good_hash_from(_, _, _)
good_hash_from(value, potion_name, tablesize) ==
  IF potion_name = <<>> THEN value
  ELSE good_hash_from((value * HASH_BASE + Head(potion_name)) % tablesize,
                      Tail(potion_name), tablesize)

good_hash(potion_name, tablesize) == good_hash_from(0, potion_name, tablesize)

bad_hash(potion_name, tablesize) == potion_name[1] % tablesize

\* LinearProbePotionTable.hash; positions count from 0 as in the code
hash(hk, potion_name, tablesize) ==
  IF hk THEN good_hash(potion_name, tablesize)
  ELSE bad_hash(potion_name, tablesize)

is_full(tbl, cnt) == cnt = Len(tbl)

\* the for loop of __linear_probe: `left` iterations remain.  The loop ends
\* without a return when every slot holds another key: the method then
\* returns None.
RECURSIVE probe_loop(_, _, _, _, _)
probe_loop(tbl, key, is_insert, position, left) ==
  IF left = 0 THEN [outcome |-> "None", position |-> 0]
  ELSE IF tbl[position + 1] = NIL
    THEN IF is_insert THEN [outcome |-> "position", position |-> position]
         ELSE [outcome |-> "KeyError", position |-> 0]
  ELSE IF tbl[position + 1].key = key
    THEN [outcome |-> "position", position |-> position]
  ELSE probe_loop(tbl, key, is_insert, (position + 1) % Len(tbl), left - 1)

linear_probe(tbl, cnt, hk, key, is_insert) ==
  IF is_insert /\ is_full(tbl, cnt)
    THEN [outcome |-> "KeyError", position |-> 0]
    ELSE probe_loop(tbl, key, is_insert, hash(hk, key, Len(tbl)), Len(tbl))

\* __getitem__: self.table[None] raises TypeError
getitem(tbl, cnt, hk, key) ==
  LET p == linear_probe(tbl, cnt, hk, key, FALSE)
  IN IF p.outcome = "KeyError" THEN [outcome |-> "KeyError", value |-> NIL]
     ELSE IF p.outcome = "None" THEN [outcome |-> "TypeError", value |-> NIL]
     ELSE [outcome |-> "ok", value |-> tbl[p.position + 1].data]

\* __contains__ catches KeyError only
contains(tbl, cnt, hk, key) ==
  LET g == getitem(tbl, cnt, hk, key)
  IN IF g.outcome = "KeyError" THEN [outcome |-> "ok", value |-> FALSE]
     ELSE IF g.outcome = "ok" THEN [outcome |-> "ok", value |-> TRUE]
     ELSE [outcome |-> g.outcome, value |-> FALSE]

\* __setitem__: the table and count it leaves, and how it ended
setitem(tbl, cnt, hk, key, data) ==
  LET unchanged(o) == [outcome |-> o, table |-> tbl, count |-> cnt]
      c == contains(tbl, cnt, hk, key)
  IN IF cnt = Len(tbl) /\ c.outcome # "ok" THEN unchanged(c.outcome)
     ELSE IF cnt = Len(tbl) /\ ~c.value THEN unchanged("ValueError")
     ELSE LET p == linear_probe(tbl, cnt, hk, key, TRUE)
          IN IF p.outcome = "KeyError" THEN unchanged("KeyError")
             ELSE IF p.outcome = "None" THEN unchanged("TypeError")
             ELSE [outcome |-> "ok",
                   table |-> [tbl EXCEPT ![p.position + 1] =
                                [key |-> key, data |-> data]],
                   count |-> IF tbl[p.position + 1] = NIL THEN cnt + 1
                             ELSE cnt]

\* LinearProbePotionTable(max_potions): max_potions empty slots
new_table(max_potions) == [i \in 1..max_potions |-> NIL]

\* --------------------------------------------------------------- RandomGen
\* A generated number is below 2^32; it is kept as two 16-bit halves,
\* num = hi * 2^16 + lo, so that no intermediate value of the arithmetic
\* leaves the integers the checker computes with.
W16 == 65536
LcgA == 134775813
LcgC == 1

\* a * b for a, b < 2^16, as a 32-bit number
mul16(a, b) ==
  LET B == a * (b \div 256)
      T == (B % 256) * 256 + a * (b % 256)
  IN [hi |-> B \div 256 + T \div W16, lo |-> T % W16]

\* one step of lcg: seed = (a * seed + c) % modulus with modulus 2^32
lcg(seed) ==
  LET p == mul16(LcgA % W16, seed.lo)
      cross == mul16(LcgA \div W16, seed.lo).lo + mul16(LcgA % W16, seed.hi).lo
      low == p.lo + LcgC
  IN [hi |-> (p.hi + cross + low \div W16) % W16, lo |-> low % W16]

\* [next(self.generated_numbers) for _ in range(n)], from generator state seed
RECURSIVE next_numbers(_, _)
next_numbers(seed, n) ==
  IF n = 0 THEN <<>>
  ELSE LET num == lcg(seed) IN <<num>> \o next_numbers(num, n - 1)

Pow2(e) == IF e = 0 THEN 1 ELSE 2 ^ e

\* '{0:016b}' of a 16-bit half, most significant bit first
bits16(n) ==
  [i \in 1..16 |-> IF (n \div Pow2(16 - i)) % 2 = 1 THEN "1" ELSE "0"]

\* '{0:032b}'.format(num)
format_032b(num) == bits16(num.hi) \o bits16(num.lo)

\* int(res, 2)
RECURSIVE int_base2(_, _)
int_base2(res, acc) ==
  IF res = <<>> THEN acc
  ELSE int_base2(Tail(res), 2 * acc + (IF Head(res) = "1" THEN 1 ELSE 0))

\* the character appended to res for position bit (counted from 1 here)
majority_bit_of_two(binary, bit) ==
  IF Cardinality({n \in 1..Len(binary) : binary[n][bit] = "1"}) >= 2
    THEN "1" ELSE "0"

majority_bit(binary, bit) ==
  IF Cardinality({n \in 1..Len(binary) : binary[n][bit] = "1"}) >= 3
    THEN "1" ELSE "0"

randint_result_zero_based(res, k) == int_base2(res, 0) % k

\* a result in 1..k+1
randint_result_one_above(res, k) == (int_base2(res, 0) % (k + 1)) + 1

randint_result(res, k) == (int_base2(res, 0) % k) + 1

\* RandomGen.randint(k) from generator state seed: how it ended, the value
\* returned, the generator state left, the numbers drawn and int(res, 2)
randint(seed, k) ==
  IF k = 0
    THEN [raised |-> TRUE, value |-> 0, seed |-> seed, random_num |-> <<>>,
          m |-> 0]
    ELSE LET random_num == next_numbers(seed, 5)
             binary == [n \in 1..5 |-> SubSeq(format_032b(random_num[n]), 1, 16)]
             res == [bit \in 1..16 |-> majority_bit(binary, bit)]
         IN [raised |-> FALSE, value |-> randint_result(res, k),
             seed |-> random_num[5], random_num |-> random_num,
             m |-> int_base2(res, 0)]

\* -------------------------------------------------------------------- Game
\* A Game is the record g of its fields: root and length of inventory_tree,
\* table and count of potion_data_table, the generator state rand with the
\* number of randint calls made, hash_table_data,
\* potion_name_amount_pairs_copy (pairs_copy), and raised, the exception a
\* method ended with ("none" when it returned).
\*
\* A Potion object is shared between potion_data_table and inventory_tree.
\* An item of the tree is [potion, live]: live says that the object is the
\* one potion_data_table holds under its name, so a change of its quantity
\* through the table shows in the tree as well.
\*
\* hash_table_data and pairs_copy are None (NIL) or a list, [list |-> l].
ListRef(l) == [list |-> l]

Potion(potion_type, name, buy_price, quantity) ==
  [potion_type |-> potion_type, name |-> name, buy_price |-> buy_price,
   quantity |-> quantity]

create_empty(potion_type, name, buy_price) ==
  Potion(potion_type, name, buy_price, 0)

\* the objects of the tree after potion_data_table has been replaced by a
\* table of new Potion objects
RECURSIVE orphan_items(_)
orphan_items(n) ==
  IF n = NIL THEN NIL
  ELSE [n EXCEPT !.item = [@ EXCEPT !.live = FALSE],
                 !.left = orphan_items(n.left),
                 !.right = orphan_items(n.right)]

\* current_potion.quantity += amount, seen through the tree
RECURSIVE add_quantity(_, _, _)
add_quantity(n, name, amount) ==
  IF n = NIL THEN NIL
  ELSE [n EXCEPT !.item = IF @.live /\ @.potion.name = name
                            THEN [@ EXCEPT !.potion.quantity = @ + amount]
                            ELSE @,
                 !.left = add_quantity(n.left, name, amount),
                 !.right = add_quantity(n.right, name, amount)]

\* the for loop of set_total_potion_data
RECURSIVE fill_table(_, _, _)
fill_table(tbl, cnt, potion_data) ==
  IF potion_data = <<>> THEN [raised |-> "none", table |-> tbl, count |-> cnt]
  ELSE LET potion == Head(potion_data)
           r == setitem(tbl, cnt, TRUE, potion[1],
                        create_empty(potion[2], potion[1], potion[3]))
       IN IF r.outcome # "ok"
            THEN [raised |-> r.outcome, table |-> tbl, count |-> cnt]
            ELSE fill_table(r.table, r.count, Tail(potion_data))

set_total_potion_data(g, potion_data) ==
  LET f == fill_table(new_table(Len(potion_data)), 0, potion_data)
  IN [g EXCEPT !.hash_table_data = ListRef(potion_data),
               !.table = f.table,
               !.count = f.count,
               !.root = orphan_items(g.root),
               !.raised = f.raised]

\* the for loop of add_potions_to_inventory
RECURSIVE add_pairs(_, _)
add_pairs(g, pairs) ==
  IF pairs = <<>> THEN g
  ELSE LET potion_name == Head(pairs)[1]
           amount_of_liter == Head(pairs)[2]
           found == getitem(g.table, g.count, TRUE, potion_name)
       IN IF found.outcome # "ok" THEN [g EXCEPT !.raised = found.outcome]
          ELSE LET slot == linear_probe(g.table, g.count, TRUE, potion_name,
                                        FALSE).position + 1
                   current_potion ==
                     [found.value EXCEPT !.quantity = @ + amount_of_liter]
                   ins == insert_aux(
                            add_quantity(g.root, potion_name, amount_of_liter),
                            current_potion.buy_price,
                            [potion |-> current_potion, live |-> TRUE])
               IN add_pairs([g EXCEPT !.table[slot].data = current_potion,
                                      !.root = ins.node,
                                      !.length = @ + ins.dlen],
                            Tail(pairs))

add_potions_to_inventory(g, pairs) ==
  add_pairs([g EXCEPT !.pairs_copy = ListRef(pairs)], pairs)

\* the for loop of choose_potions_for_vendors: `left` vendors remain; steps
\* keeps, for every turn, len(self.inventory_tree) as passed to randint, the
\* number of nodes of the tree, whether randint raised, the rank it returned
\* and whether kth_largest was called
RECURSIVE choose_loop(_, _, _)

\* one turn of the loop, random_num being what randint did
choose_turn(g, left, potions_for_vendors, random_num, step) ==
  IF random_num.raised
    THEN [g |-> [g EXCEPT !.raised = "ValueError"],
          result |-> potions_for_vendors, steps |-> <<step>>]
  ELSE Only({
    IF found.error \/ found.node = NIL
      THEN [g |-> [g EXCEPT !.raised = "AttributeError",
                            !.rand = random_num.seed,
                            !.calls = @ + 1],
            result |-> potions_for_vendors, steps |-> <<step>>]
    ELSE LET current_potion == found.node.item.potion
         IN Only({
              IF del.raised
                THEN [g |-> [g EXCEPT !.rand = random_num.seed,
                                      !.calls = @ + 1,
                                      !.root = del.node,
                                      !.length = @ + del.dlen,
                                      !.raised = "ValueError"],
                      result |-> potions_for_vendors, steps |-> <<step>>]
                ELSE [choose_loop([g EXCEPT !.rand = random_num.seed,
                                            !.calls = @ + 1,
                                            !.root = del.node,
                                            !.length = @ + del.dlen],
                                  left - 1,
                                  Append(potions_for_vendors,
                                         <<current_potion.name,
                                           current_potion.quantity>>))
                      EXCEPT !.steps = <<step>> \o @]
              : del \in {delete_aux(g.root, current_potion.buy_price)}})
    : found \in {kth_largest(g.root, random_num.value)}})

choose_loop(g, left, potions_for_vendors) ==
  IF left = 0
    THEN [g |-> g, result |-> potions_for_vendors, steps |-> <<>>]
  ELSE Only({choose_turn(g, left, potions_for_vendors, random_num,
                         [asked |-> g.length, size |-> Size(g.root),
                          raised |-> random_num.raised,
                          k |-> random_num.value,
                          queried |-> ~random_num.raised])
             : random_num \in {randint(g.rand, g.length)}})

\* inventory_tree.clear() when there is a root, then set_total_potion_data
\* and add_potions_to_inventory with the copies kept
restore_inventory(g) ==
  LET cleared == IF g.root # NIL THEN [g EXCEPT !.root = NIL, !.length = 0]
                 ELSE g
      reset == set_total_potion_data(cleared, cleared.hash_table_data.list)
  IN IF reset.raised # "none" THEN reset
     ELSE add_potions_to_inventory(reset, reset.pairs_copy.list)

choose_potions_first_vendor_only(g, num_vendors) ==
  IF num_vendors < 0
    THEN [g |-> [g EXCEPT !.raised = "ValueError"], result |-> <<>>,
          steps |-> <<>>]
    ELSE LET chosen == choose_loop(g, IF num_vendors > 1 THEN 1
                                      ELSE num_vendors, <<>>)
         IN IF chosen.g.raised # "none" THEN chosen
            ELSE [chosen EXCEPT !.g = restore_inventory(chosen.g)]

choose_potions_for_vendors(g, num_vendors) ==
  IF num_vendors < 0
    THEN [g |-> [g EXCEPT !.raised = "ValueError"], result |-> <<>>,
          steps |-> <<>>]
    ELSE LET chosen == choose_loop(g, num_vendors, <<>>)
         IN IF chosen.g.raised # "none" THEN chosen
            ELSE [chosen EXCEPT !.g = restore_inventory(chosen.g)]

\* Amounts of money and litres are fractions in the code (money / buy_price).
\* With buy prices dividing Scale they are whole numbers of 1/Scale, and
\* that is how they are kept here: a value v of the code is the integer
\* v * Scale.
Scale == 4

\* An element (-profit_price_ratio, potion_name, selling) of profits keeps
\* its ratio as the fraction num / den with den > 0.
profit_entry(profit, current_potion, values) ==
  [num |-> -profit, den |-> current_potion.buy_price, name |-> values[1],
   selling |-> values[2]]

\* array[ia][0] <= array[ib][0]
ratio_leq(a, b) == a.num * b.den <= b.num * a.den

\* the for loop of __merge_array from position k on; array positions count
\* from 0 as in the code
RECURSIVE merge_from(_, _, _, _, _, _)
merge_from(array, ia, ib, mid, end, k) ==
  IF k > end THEN <<>>
  ELSE IF ia > mid
    THEN <<array[ib + 1]>> \o merge_from(array, ia, ib + 1, mid, end, k + 1)
  ELSE IF ib > end
    THEN <<array[ia + 1]>> \o merge_from(array, ia + 1, ib, mid, end, k + 1)
  ELSE IF ratio_leq(array[ia + 1], array[ib + 1])
    THEN <<array[ia + 1]>> \o merge_from(array, ia + 1, ib, mid, end, k + 1)
  ELSE <<array[ib + 1]>> \o merge_from(array, ia, ib + 1, mid, end, k + 1)

\* tmp[start..end] after __merge_array
merge_array(array, start, mid, end) ==
  merge_from(array, start, mid + 1, mid, end, start)

\* __merge_sort_aux at recursion depth `depth`; a call deeper than
\* RecursionLimit ends the sort with RecursionError
RECURSIVE merge_sort_aux(_, _, _, _)
merge_sort_aux(array, start, end, depth) ==
  IF depth > RecursionLimit THEN [raised |-> TRUE, array |-> array]
  ELSE IF start = end THEN [raised |-> FALSE, array |-> array]
  ELSE LET mid == (start + end) \div 2
           l == merge_sort_aux(array, start, mid, depth + 1)
           r == merge_sort_aux(l.array, mid + 1, end, depth + 1)
           tmp == merge_array(r.array, start, mid, end)
       IN IF l.raised THEN l
          ELSE IF r.raised THEN r
          ELSE [raised |-> FALSE,
                array |-> [i \in 1..Len(array) |->
                             IF start <= i - 1 /\ i - 1 <= end
                               THEN tmp[i - start] ELSE r.array[i]]]

merge_sort(array) == merge_sort_aux(array, 0, Len(array) - 1, 1)

\* the first for loop of solve_game
RECURSIVE collect_profits(_, _, _)
collect_profits(g, potion_valuations, profits) ==
  IF potion_valuations = <<>> THEN [raised |-> "none", profits |-> profits]
  ELSE LET values == Head(potion_valuations)
           found == getitem(g.table, g.count, TRUE, values[1])
           profit == values[2] - found.value.buy_price
       IN IF found.outcome # "ok"
            THEN [raised |-> found.outcome, profits |-> profits]
          ELSE IF profit > 0 /\ found.value.quantity > 0
            THEN collect_profits(g, Tail(potion_valuations),
                   Append(profits, profit_entry(profit, found.value, values)))
          ELSE collect_profits(g, Tail(potion_valuations), profits)

\* the inner for loop of solve_game and the `if money != 0` after it: what
\* one element of starting_money appends to total_profits_per_day
RECURSIVE spend(_, _, _, _)
spend(g, profits, money, earn) ==
  IF profits = <<>> THEN IF money # 0 THEN <<earn + money>> ELSE <<>>
  ELSE LET current_potion ==
             getitem(g.table, g.count, TRUE, Head(profits).name).value
           selling == Head(profits).selling
           liters == money \div current_potion.buy_price
           enough == liters >= current_potion.quantity * Scale
           earned == IF enough
                       THEN earn + current_potion.quantity * selling * Scale
                       ELSE earn + liters * selling
           rest == IF enough
                     THEN money - current_potion.buy_price
                                    * current_potion.quantity * Scale
                     ELSE money - current_potion.buy_price * liters
       IN IF rest = 0 THEN <<earned>>
          ELSE spend(g, Tail(profits), rest, earned)

RECURSIVE total_profits(_, _, _)
total_profits(g, profits, starting_money) ==
  IF starting_money = <<>> THEN <<>>
  ELSE spend(g, profits, Head(starting_money) * Scale, 0)
         \o total_profits(g, profits, Tail(starting_money))

solve_game(g, potion_valuations, starting_money) ==
  IF Len(potion_valuations) = 0
    THEN [raised |-> "none",
          result |-> [i \in 1..Len(starting_money) |->
                        starting_money[i] * Scale]]
    ELSE LET c == collect_profits(g, potion_valuations, <<>>)
             sorted == merge_sort(c.profits)
         IN IF c.raised # "none" THEN [raised |-> c.raised, result |-> <<>>]
            ELSE IF sorted.raised
              THEN [raised |-> "RecursionError", result |-> <<>>]
            ELSE [raised |-> "none",
                  result |-> total_profits(g, sorted.array, starting_money)]

\* ------------------------------------------------------------------ primes
\* `p <= root_k` with root_k = sqrt(k): for whole numbers p and k it is
\* p * p <= k
sieve_continues(p, k) == p * p <= k

\* a crossing-out that starts one multiple too late and so keeps p * p
cross_out_after_square(lst, p, k) ==
  [i \in 0..k |-> IF i > p * p /\ (i - p * p) % p = 0 THEN FALSE ELSE lst[i]]

\* for i in range(p * p, k + 1, p): lst[i] = False
cross_out(lst, p, k) ==
  [i \in 0..k |-> IF i >= p * p /\ (i - p * p) % p = 0 THEN FALSE ELSE lst[i]]

\* the while loop of largest_prime
RECURSIVE sieve(_, _, _)
sieve(lst, p, k) ==
  IF ~sieve_continues(p, k) THEN lst
  ELSE sieve(IF lst[p] THEN cross_out(lst, p, k) ELSE lst, p + 1, k)

\* the last for loop of largest_prime: i runs over range(from, len(lst) - 1)
RECURSIVE last_marked(_, _, _)
last_marked(lst, from, index) ==
  IF from >= Cardinality(DOMAIN lst) - 1 THEN index
  ELSE last_marked(lst, from + 1, IF lst[from] THEN from ELSE index)

largest_prime(k) ==
  IF k <= 2 THEN [raised |-> TRUE, value |-> 0]
  ELSE [raised |-> FALSE,
        value |-> last_marked(sieve([i \in 0..k |-> TRUE], 2, k), 2, 0)]

\* ------------------------------------------------------------------ state
VARIABLES
  root,            \* self.root
  length,          \* self.length
  op,              \* the last public call, how it ended, and the rank passed
                   \* to kth_largest (k, 0 for the other calls)
  ret,             \* key of the node the last kth_largest returned, else 0
  rt,              \* contents of the tree before a successful insert, kept
                   \* while the next call deletes the inserted key again
  failed_deletes,  \* number of delete calls that raised so far
  table,           \* LinearProbePotionTable.table, None slots as NIL
  count,           \* LinearProbePotionTable.count
  hash_key,        \* LinearProbePotionTable.hash_key (good_hash chosen)
  table_op,        \* the last table call, its key and how it ended
  rand,            \* the number the generator of RandomGen yielded last, the
                   \* seed before the first draw
  calls,           \* number of randint calls made so far
  rand_op,         \* the last randint call: k, how it ended, the value
                   \* returned, the numbers drawn and int(res, 2)
  hash_table_data, \* Game.hash_table_data, None as NIL
  pairs_copy,      \* Game.potion_name_amount_pairs_copy, None as NIL
  adds,            \* number of add_potions_to_inventory calls made on the game
  prime_op,        \* the last largest_prime call: k, how it ended and the
                   \* value returned
  game_op          \* the last Game call: the exception it ended with
                   \* ("none" when it returned), the list it returned, the
                   \* num_vendors passed to choose_potions_for_vendors and
                   \* the length of the starting_money passed to solve_game

treeVars == <<root, length, op, ret, rt, failed_deletes>>
tableVars == <<table, count, hash_key, table_op>>
randVars == <<rand, calls, rand_op>>
gameVars == <<hash_table_data, pairs_copy, adds, game_op>>
vars == <<root, length, op, ret, rt, failed_deletes,
          table, count, hash_key, table_op, rand, calls, rand_op,
          hash_table_data, pairs_copy, adds, game_op, prime_op>>

NoRt == [stage |-> "none", key |-> 0, map |-> [k \in AllKeys |-> 0], length |-> 0]

Init ==
  /\ root = NIL
  /\ length = 0
  /\ op = [name |-> "init", raised |-> FALSE, spliced |-> FALSE, k |-> 0,
           rotations |-> 0]
  /\ ret = 0
  /\ rt = NoRt
  /\ failed_deletes = 0

\* The item stored under a key: Game.add_potions_to_inventory stores each
\* potion under its buy_price, so the key determines the item.
ItemOf(key) == 100 + key

\* tree[key] = item
Insert(key, item) ==
  LET res == insert_aux(root, key, item)
  IN /\ root' = res.node
     /\ length' = length + res.dlen
     /\ op' = [name |-> "insert", raised |-> res.raised, spliced |-> FALSE,
               k |-> 0, rotations |-> count_rotations(res.calls)]
     /\ ret' = 0
     /\ rt' = IF res.raised THEN NoRt
              ELSE [stage |-> "inserted", key |-> key,
                    map |-> Mapping(root), length |-> length]
     /\ UNCHANGED failed_deletes

\* del tree[key]
Delete(key) ==
  LET res == delete_aux(root, key)
  IN /\ res.raised => failed_deletes < MaxFailedDeletes
     /\ root' = res.node
     /\ length' = length + res.dlen
     /\ op' = [name |-> "delete", raised |-> res.raised,
               spliced |-> res.spliced, k |-> 0,
               rotations |-> count_rotations(res.calls)]
     /\ ret' = 0
     /\ rt' = IF ~res.raised /\ rt.stage = "inserted" /\ rt.key = key
                THEN [rt EXCEPT !.stage = "deleted"]
                ELSE NoRt
     /\ failed_deletes' = IF res.raised THEN failed_deletes + 1
                          ELSE failed_deletes

\* tree.kth_largest(k) on a non-empty tree
KthLargest(k) ==
  LET res == kth_largest(root, k)
  IN /\ root # NIL
     /\ op' = [name |-> "kth_largest", raised |-> res.error,
               spliced |-> FALSE, k |-> k, rotations |-> 0]
     /\ ret' = IF res.node # NIL THEN res.node.key ELSE 0
     /\ rt' = NoRt
     /\ UNCHANGED <<root, length, failed_deletes>>

\* no table has been constructed
NoTableOp == [name |-> "none", key |-> <<>>, outcome |-> "ok", value |-> 0]

NoTable ==
  /\ table = <<>>
  /\ count = 0
  /\ hash_key = TRUE
  /\ table_op = NoTableOp

\* no generator has been constructed
NoRandOp ==
  [name |-> "none", k |-> 0, raised |-> FALSE, value |-> 0,
   random_num |-> <<>>, m |-> 0]

NoRand ==
  /\ rand = [hi |-> 0, lo |-> 0]
  /\ calls = 0
  /\ rand_op = NoRandOp

\* no game has been constructed
NoGameOp ==
  [name |-> "none", raised |-> "none", result |-> <<>>, num_vendors |-> 0,
   days |-> 0]

NoGame ==
  /\ hash_table_data = NIL
  /\ pairs_copy = NIL
  /\ adds = 0
  /\ game_op = NoGameOp

\* largest_prime has not been called
NoPrimeOp == [name |-> "none", k |-> 0, raised |-> FALSE, value |-> 0]

NoPrime == prime_op = NoPrimeOp

Next ==
  \/ \E key \in Keys :
       Insert(key, ItemOf(key)) /\ UNCHANGED <<tableVars, randVars, gameVars, prime_op>>
  \/ \E key \in Keys : Delete(key) /\ UNCHANGED <<tableVars, randVars, gameVars, prime_op>>
  \/ \E k \in Ranks : KthLargest(k) /\ UNCHANGED <<tableVars, randVars, gameVars, prime_op>>

\* a tree on its own: no table, generator or game
InitTree == Init /\ NoTable /\ NoRand /\ NoGame /\ NoPrime

Spec == InitTree /\ [][Next]_vars

\* The same tree driven with the buy prices of the documented inventory.
NextScenario ==
  \/ \E key \in ScenarioKeys :
       Insert(key, ItemOf(key)) /\ UNCHANGED <<tableVars, randVars, gameVars, prime_op>>
  \/ \E key \in ScenarioKeys :
       Delete(key) /\ UNCHANGED <<tableVars, randVars, gameVars, prime_op>>
  \/ \E k \in ScenarioRanks :
       KthLargest(k) /\ UNCHANGED <<tableVars, randVars, gameVars, prime_op>>

SpecScenario == InitTree /\ [][NextScenario]_vars

\* ------------------------------------------- the table driven on its own
\* "a", "b", "d" and "ab": "a" and "d" collide in a table of 3 slots, and
\* good_hash and bad_hash differ on "ab"
TableNames == {<<97>>, <<98>>, <<100>>, <<97, 98>>}
TableData == {1, 2}

InitTable ==
  /\ \E max_potions \in 1..MaxTableSize : table = new_table(max_potions)
  /\ count = 0
  /\ hash_key \in BOOLEAN
  /\ table_op = NoTableOp

\* table[key] = data
TableSet(key, data) ==
  LET r == setitem(table, count, hash_key, key, data)
  IN /\ table' = r.table
     /\ count' = r.count
     /\ table_op' = [name |-> "setitem", key |-> key, outcome |-> r.outcome,
                     value |-> data]
     /\ UNCHANGED hash_key

\* table[key]
TableGet(key) ==
  LET r == getitem(table, count, hash_key, key)
  IN /\ table_op' = [name |-> "getitem", key |-> key, outcome |-> r.outcome,
                     value |-> IF r.outcome = "ok" THEN r.value ELSE 0]
     /\ UNCHANGED <<table, count, hash_key>>

\* key in table; value 1 stands for True, 0 for False
TableContains(key) ==
  LET r == contains(table, count, hash_key, key)
  IN /\ table_op' = [name |-> "contains", key |-> key, outcome |-> r.outcome,
                     value |-> IF r.value THEN 1 ELSE 0]
     /\ UNCHANGED <<table, count, hash_key>>

NextTable ==
  \/ \E key \in TableNames, data \in TableData :
       TableSet(key, data) /\ UNCHANGED <<treeVars, randVars, gameVars, prime_op>>
  \/ \E key \in TableNames :
       TableGet(key) /\ UNCHANGED <<treeVars, randVars, gameVars, prime_op>>
  \/ \E key \in TableNames :
       TableContains(key) /\ UNCHANGED <<treeVars, randVars, gameVars, prime_op>>

InitTableOnly == Init /\ InitTable /\ NoRand /\ NoGame /\ NoPrime

SpecTable == InitTableOnly /\ [][NextTable]_vars

\* ---------------------------------------- the generator driven on its own
\* seeds 0, 1, 134775814 and 2^32 - 1
Seeds ==
  {[hi |-> 0, lo |-> 0], [hi |-> 0, lo |-> 1], [hi |-> 2056, lo |-> 33798],
   [hi |-> W16 - 1, lo |-> W16 - 1]}

\* RandomGen(seed)
InitRand ==
  /\ rand \in Seeds
  /\ calls = 0
  /\ rand_op = NoRandOp

\* rand.randint(k)
RandInt(k) ==
  LET r == randint(rand, k)
  IN /\ calls < MaxCalls
     /\ rand' = r.seed
     /\ calls' = calls + 1
     /\ rand_op' = [name |-> "randint", k |-> k, raised |-> r.raised,
                    value |-> r.value, random_num |-> r.random_num,
                    m |-> r.m]

NextRand ==
  \E k \in 0..MaxK : RandInt(k) /\ UNCHANGED <<treeVars, tableVars, gameVars, prime_op>>

InitRandOnly == Init /\ NoTable /\ InitRand /\ NoGame /\ NoPrime

SpecRand == InitRandOnly /\ [][NextRand]_vars

\* -------------------------------------------------- the game as a whole
\* The potions a game is played with: names "A", "B" and "D" ("A" and "D"
\* collide in a table of 3 slots), each with its type and buy price.
PotionA == <<<<65>>, "Buff", 1>>
PotionB == <<<<66>>, "Health", 2>>
PotionD == <<<<68>>, "Damage", 4>>

PotionDataLists == {<<PotionA, PotionB, PotionD>>, <<PotionB, PotionA>>}

PairLists ==
  {<<<<PotionA[1], 1>>>>, <<<<PotionB[1], 2>>>>,
   <<<<PotionD[1], 3>>, <<PotionA[1], 2>>>>}

ValuationLists ==
  {<<>>, <<<<PotionA[1], 1>>>>,
   <<<<PotionB[1], 3>>, <<PotionD[1], 12>>, <<PotionA[1], 2>>>>}

MoneyLists == {<<1, 0, 20>>}

\* seeds 0 (the default of Game) and 1
GameSeeds == {[hi |-> 0, lo |-> 0], [hi |-> 0, lo |-> 1]}

NamesOf(potion_data) == {potion_data[i][1] : i \in 1..Len(potion_data)}

\* Game(seed)
InitGame ==
  /\ rand \in GameSeeds
  /\ calls = 0
  /\ rand_op = NoRandOp
  /\ hash_table_data = NIL
  /\ pairs_copy = NIL
  /\ adds = 0
  /\ game_op = NoGameOp

\* the fields of the game
TheGame ==
  [root |-> root, length |-> length, table |-> table, count |-> count,
   rand |-> rand, calls |-> calls, hash_table_data |-> hash_table_data,
   pairs_copy |-> pairs_copy, raised |-> "none"]

\* the fields of the game become those of g
Becomes(g) ==
  /\ root' = g.root
  /\ length' = g.length
  /\ table' = g.table
  /\ count' = g.count
  /\ rand' = g.rand
  /\ calls' = g.calls
  /\ hash_table_data' = g.hash_table_data
  /\ pairs_copy' = g.pairs_copy
  /\ UNCHANGED <<op, ret, rt, failed_deletes, hash_key, table_op, rand_op,
                 prime_op>>

\* game.set_total_potion_data(potion_data), for potion data that keep the
\* potions added last
SetTotalPotionData(potion_data) ==
  /\ pairs_copy # NIL =>
       \A i \in 1..Len(pairs_copy.list) :
         pairs_copy.list[i][1] \in NamesOf(potion_data)
  /\ \E g \in {set_total_potion_data(TheGame, potion_data)} :
       /\ Becomes(g)
       /\ game_op' = [name |-> "set_total_potion_data", raised |-> g.raised,
                      result |-> <<>>, num_vendors |-> 0, days |-> 0]
  /\ UNCHANGED adds

\* game.add_potions_to_inventory(pairs), for potions of the potion data
AddPotionsToInventory(pairs) ==
  /\ hash_table_data # NIL
  /\ \A i \in 1..Len(pairs) : pairs[i][1] \in NamesOf(hash_table_data.list)
  /\ adds < MaxAdds
  /\ \E g \in {add_potions_to_inventory(TheGame, pairs)} :
       /\ Becomes(g)
       /\ game_op' = [name |-> "add_potions_to_inventory",
                      raised |-> g.raised, result |-> <<>>,
                      num_vendors |-> 0, days |-> 0]
  /\ adds' = adds + 1

\* game.choose_potions_for_vendors(num_vendors), once potions were added
ChoosePotionsForVendors(num_vendors) ==
  /\ hash_table_data # NIL
  /\ pairs_copy # NIL
  /\ calls + num_vendors <= MaxCalls
  /\ \E r \in {choose_potions_for_vendors(TheGame, num_vendors)} :
       /\ Becomes(r.g)
       /\ game_op' = [name |-> "choose_potions_for_vendors",
                      raised |-> r.g.raised, result |-> r.result,
                      num_vendors |-> num_vendors, days |-> 0]
  /\ UNCHANGED adds

\* game.solve_game(potion_valuations, starting_money), for potions of the
\* potion data
SolveGame(potion_valuations, starting_money) ==
  /\ hash_table_data # NIL
  /\ \A i \in 1..Len(potion_valuations) :
       potion_valuations[i][1] \in NamesOf(hash_table_data.list)
  /\ \E r \in {solve_game(TheGame, potion_valuations, starting_money)} :
       game_op' = [name |-> "solve_game", raised |-> r.raised,
                   result |-> r.result, num_vendors |-> 0,
                   days |-> Len(starting_money)]
  /\ UNCHANGED <<treeVars, tableVars, randVars, hash_table_data,
                 pairs_copy, adds, prime_op>>

NextGame ==
  \/ \E potion_data \in PotionDataLists : SetTotalPotionData(potion_data)
  \/ \E pairs \in PairLists : AddPotionsToInventory(pairs)
  \/ \E num_vendors \in 0..MaxVendors : ChoosePotionsForVendors(num_vendors)
  \/ \E potion_valuations \in ValuationLists, starting_money \in MoneyLists :
       SolveGame(potion_valuations, starting_money)

\* a new game: an empty tree, no table yet, a generator
InitNewGame == Init /\ NoTable /\ InitGame /\ NoPrime

SpecGame == InitNewGame /\ [][NextGame]_vars

\* ------------------------------------------- largest_prime on its own
InitPrimes == Init /\ NoTable /\ NoRand /\ NoGame /\ NoPrime

\* largest_prime(k)
LargestPrime(k) ==
  /\ \E r \in {largest_prime(k)} :
       prime_op' = [name |-> "largest_prime", k |-> k, raised |-> r.raised,
                    value |-> r.value]
  /\ UNCHANGED <<treeVars, tableVars, randVars, gameVars>>

NextPrimes == \E k \in -1..MaxPrimeArg : LargestPrime(k)

SpecPrimes == InitPrimes /\ [][NextPrimes]_vars

\* ---------------------------------------------------------- tree properties
\* all keys in left < node.key < all keys in right, at every node
BSTOrdered(n) ==
  \A m \in Nodes(n) :
    /\ \A l \in Nodes(m.left) : l.key < m.key
    /\ \A r \in Nodes(m.right) : r.key > m.key

InOrderIncreasing(n) ==
  LET s == InOrder(n)
  IN \A i \in 1..(Len(s) - 1) : s[i].key < s[i + 1].key

Abs(x) == IF x < 0 THEN -x ELSE x

\* |height(right) - height(left)| <= 1 at every node, on the true heights and
\* on the stored ones that get_balance reads
Balanced(n) ==
  \A m \in Nodes(n) :
    /\ Abs(Height(m.right) - Height(m.left)) <= 1
    /\ Abs(get_balance(m)) <= 1

HeightsCorrect(n) ==
  \A m \in Nodes(n) :
    /\ m.height = 1 + Max(get_height(m.left), get_height(m.right))
    /\ m.height = Height(m)

\* the stored counters are the true subtree sizes
StoredCountersCorrect(n) ==
  \A m \in Nodes(n) :
    /\ m.left_counter = Size(m.left)
    /\ m.right_counter = Size(m.right)

\* some node keeps a non-zero counter for a child it no longer has
StaleCounter(n) ==
  \E m \in Nodes(n) :
    \/ m.left = NIL /\ m.left_counter # 0
    \/ m.right = NIL /\ m.right_counter # 0

\* ------------------------------------------------------------------ claims

\* C1: after any sequence of successful inserts and deletes, kth_largest(k)
\* returns, for every k in 1..n, the node whose key is the k-th element of the
\* keys sorted in descending order.
C1_KthLargestIsKthOfSortedKeys ==
  failed_deletes = 0 =>
    \A k \in 1..Size(root) :
      LET res == kth_largest(root, k)
      IN /\ ~res.error
         /\ res.node # NIL
         /\ res.node.key = SortedDesc(KeysOf(root))[k]

C1_Witness ==
  /\ op.name = "kth_largest"
  /\ failed_deletes = 0
  /\ length = MaxKey
  /\ StaleCounter(root)
  /\ ret = SortedDesc(KeysOf(root))[MaxKey - 1]

\* C2: after every insert or delete the binary-search-tree ordering holds at
\* every node, and an in-order traversal yields strictly increasing keys.
C2_BSTOrdering ==
  BSTOrdered(root) /\ InOrderIncreasing(root)

C2_Witness ==
  /\ op.name = "delete"
  /\ op.spliced
  /\ length >= 3
  /\ Height(root) = 2

\* C3: after every insert and every delete, every node satisfies
\* |height(right) - height(left)| <= 1.
C3_AVLBalance ==
  Balanced(root)

C3_Witness ==
  /\ op.name = "delete"
  /\ ~op.raised
  /\ length = MaxKey - 1
  /\ Height(root) = 2
  /\ StaleCounter(root)

\* C4: after every successful insert or delete, every stored left/right
\* counter equals the true size of that subtree (0 when the child is absent)
\* and length equals the number of nodes reachable from the root.
C4_StoredCountersExact ==
  (op.name \in {"insert", "delete"} /\ ~op.raised) =>
    (StoredCountersCorrect(root) /\ length = Size(root))

\* C5: after every insert and delete the stored height of every node is
\* 1 + max(height(left), height(right)), 0 for an absent subtree.
C5_HeightsCorrect ==
  HeightsCorrect(root)

C5_Witness ==
  /\ op.name = "insert"
  /\ ~op.raised
  /\ length = MaxKey
  /\ Height(root) = 3
  /\ StaleCounter(root)

\* C6: a delete of a key that is not in the tree raises and leaves the tree
\* completely unchanged (structure, keys, items, heights, counters, length),
\* so every kth_largest(k), 1 <= k <= n, answers as before.
C6_FailedDeleteLeavesTreeUnchanged ==
  [][\A key \in Keys :
       (Delete(key) /\ op'.raised) =>
         /\ root' = root
         /\ length' = length
         /\ \A k \in 1..length :
              kth_largest(root', k).node = kth_largest(root, k).node]_vars

\* C7: an insert of a key that is already present raises and leaves the tree
\* unchanged: same in-order sequence, shape, heights, counters and length.
C7_DuplicateInsertLeavesTreeUnchanged ==
  [][\A key \in Keys :
       (Insert(key, ItemOf(key)) /\ op'.raised) =>
         /\ key \in KeysOf(root)
         /\ InOrder(root') = InOrder(root)
         /\ root' = root
         /\ length' = length]_vars

C7_Witness ==
  /\ op.name = "insert"
  /\ op.raised
  /\ length >= 3

\* C8: a successful delete(key) removes exactly that key, every remaining
\* key keeps its item (also when a two-children node is overwritten by its
\* successor), and length decreases by exactly 1.
C8_DeleteRemovesExactlyKey ==
  [][\A key \in Keys :
       (Delete(key) /\ ~op'.raised) =>
         /\ key \in KeysOf(root)
         /\ KeysOf(root') = KeysOf(root) \ {key}
         /\ \A k \in KeysOf(root') : Mapping(root')[k] = Mapping(root)[k]
         /\ Len(InOrder(root')) = Len(InOrder(root)) - 1
         /\ length' = length - 1]_vars

C8_Witness ==
  /\ op.name = "delete"
  /\ ~op.raised
  /\ op.spliced
  /\ length = MaxKey - 1

\* C9: a successful insert(key, item) of a key not in the tree adds exactly
\* one node: the key set gains key, key maps to item, every other key keeps
\* its item, and length increases by exactly 1.
C9_InsertAddsExactlyKey ==
  [][\A key \in Keys :
       (Insert(key, ItemOf(key)) /\ ~op'.raised) =>
         /\ key \notin KeysOf(root)
         /\ KeysOf(root') = KeysOf(root) \cup {key}
         /\ Mapping(root')[key] = ItemOf(key)
         /\ \A k \in KeysOf(root) : Mapping(root')[k] = Mapping(root)[k]
         /\ Len(InOrder(root')) = Len(InOrder(root)) + 1
         /\ length' = length + 1]_vars

C9_Witness ==
  /\ op.name = "insert"
  /\ ~op.raised
  /\ length = MaxKey
  /\ Height(root) = 3

\* C10: insert(x) of a key not in T followed by delete(x) yields a tree with
\* the key set, key-to-item mapping and length of T that satisfies BST
\* ordering, AVL balance, height correctness and counter correctness.
C10_InsertThenDeleteRestores ==
  rt.stage = "deleted" =>
    /\ Mapping(root) = rt.map
    /\ length = rt.length
    /\ BSTOrdered(root)
    /\ Balanced(root)
    /\ HeightsCorrect(root)
    /\ StoredCountersCorrect(root)

\* the tree left by inserting the keys of seq, in that order, into t
RECURSIVE InsertAll(_, _)
InsertAll(t, seq) ==
  IF seq = <<>> THEN t
  ELSE InsertAll(insert_aux(t, Head(seq), ItemOf(Head(seq))).node, Tail(seq))

ScenarioTree == InsertAll(NIL, ScenarioOrder)

\* C11: inserting 10, 5, 20, 1, 25 in that order leaves a balanced tree on
\* which kth_largest(1) is key 25 and kth_largest(3) is key 10; after
\* delete(20), kth_largest(1) is 25, kth_largest(2) is 10 and the length is 4,
\* down from 5.
C11_WorkedScenario ==
  [][/\ root' = ScenarioTree =>
          /\ Balanced(root')
          /\ length' = 5
          /\ kth_largest(root', 1).node.key = 25
          /\ kth_largest(root', 3).node.key = 10
     /\ (root = ScenarioTree /\ Delete(20)) =>
          /\ ~op'.raised
          /\ Balanced(root')
          /\ kth_largest(root', 1).node.key = 25
          /\ kth_largest(root', 2).node.key = 10
          /\ length = 5
          /\ length' = 4]_vars

C11_Witness ==
  /\ op.name = "delete"
  /\ ~op.raised
  /\ failed_deletes = 0
  /\ root = delete_aux(ScenarioTree, 20).node
  /\ KeysOf(root) = {1, 5, 10, 25}
  /\ length = 4

\* the keys of a tree with their places: <<left, key, right>>, <<>> if empty
RECURSIVE Shape(_)
Shape(t) ==
  IF t = NIL THEN <<>> ELSE <<Shape(t.left), t.key, Shape(t.right)>>

Leaf(key) == <<(<<>>), key, (<<>>)>>

\* root 10, left child 5 (with left child 1), right child 20 (with right
\* child 25)
ShapeBefore == <<(<<Leaf(1), 5, (<<>>)>>), 10, (<<(<<>>), 20, Leaf(25)>>)>>

\* root 10, left child 5 (with left child 1), right child 25
ShapeAfter20 == <<(<<Leaf(1), 5, (<<>>)>>), 10, Leaf(25)>>

\* root 5, left child 1, right child 25
ShapeAfter10 == <<Leaf(1), 5, Leaf(25)>>

\* C22: on the tree with root 10, left child 5 (with left child 1) and right
\* child 20 (with right child 25), kth_largest(2) is key 20; deleting 20
\* leaves root 10 with left 5 (left child 1) and right 25, on which
\* kth_largest(2) is key 10; deleting 10 then leaves root 5 with left child 1
\* and right child 25.
C22_SelectionTrace ==
  [][/\ Shape(root') = ShapeBefore => kth_largest(root', 2).node.key = 20
     /\ (Shape(root) = ShapeBefore /\ Delete(20)) =>
          /\ ~op'.raised
          /\ Shape(root') = ShapeAfter20
          /\ kth_largest(root', 2).node.key = 10
     /\ (Shape(root) = ShapeAfter20 /\ Delete(10)) =>
          /\ ~op'.raised
          /\ Shape(root') = ShapeAfter10]_vars

C22_Witness ==
  /\ op.name = "delete"
  /\ ~op.raised
  /\ failed_deletes = 0
  /\ Shape(ScenarioTree) = ShapeBefore
  /\ root = delete_aux(delete_aux(ScenarioTree, 20).node, 10).node
  /\ Shape(root) = ShapeAfter10
  /\ length = 3

\* C12 as claimed: kth_largest with a rank k <= 0 or k > tree size reports an
\* error to the caller instead of returning a node.
C12_OutOfRangeRankRaises ==
  (op.name = "kth_largest" /\ (op.k <= 0 \/ op.k > length)) => op.raised

\* C12 as amended: on a non-empty tree, kth_largest with a rank k <= 0 or
\* k > tree size reports no error; it returns a node of the tree.
C12_OutOfRangeRankReturnsNode ==
  (op.name = "kth_largest" /\ (op.k <= 0 \/ op.k > length)) =>
    (~op.raised /\ ret \in KeysOf(root))

C12_Witness ==
  /\ op.name = "kth_largest"
  /\ op.k > length
  /\ length >= 3
  /\ ~op.raised
  /\ ret \in KeysOf(root)

\* ------------------------------------------------------ table claims
Stored(tbl, key) == \E i \in 1..Len(tbl) : tbl[i] # NIL /\ tbl[i].key = key

\* C16: looking up a key that is not stored raises KeyError from __getitem__
\* and makes `key in table` return False, in every table state, the full
\* table included.
C16_AbsentKeyLookupRaisesKeyError ==
  /\ (table_op.name = "getitem" /\ ~Stored(table, table_op.key)) =>
       table_op.outcome = "KeyError"
  /\ (table_op.name = "contains" /\ ~Stored(table, table_op.key)) =>
       (table_op.outcome = "ok" /\ table_op.value = 0)

\* C17: setting a key that is not stored while the table is full raises
\* ValueError and leaves the entries and the count as they were.
C17_FullTableInsertRaisesValueError ==
  [][\A key \in TableNames, data \in TableData :
       (TableSet(key, data) /\ count = Len(table) /\ ~Stored(table, key)) =>
         /\ table_op'.outcome = "ValueError"
         /\ table' = table
         /\ count' = count]_vars

\* C18: setting a key that is already stored replaces its value and leaves
\* the count unchanged, in every table state, the full table included; a
\* get of that key then returns the new value.
C18_UpdateStoredKeyReplacesValue ==
  [][\A key \in TableNames, data \in TableData :
       (TableSet(key, data) /\ Stored(table, key)) =>
         /\ table_op'.outcome = "ok"
         /\ count' = count
         /\ getitem(table', count', hash_key', key) =
              [outcome |-> "ok", value |-> data]]_vars
\* -------------------------------------------------- generator claims
\* C19: for every seed and every k >= 1, randint(k) returns r with
\* 1 <= r <= k; randint(0) raises ValueError.
C19_RandintWithinOneToK ==
  rand_op.name = "randint" =>
    IF rand_op.k = 0 THEN rand_op.raised
    ELSE /\ ~rand_op.raised
         /\ 1 <= rand_op.value
         /\ rand_op.value <= rand_op.k

C19_Witness ==
  /\ rand_op.name = "randint" /\ ~rand_op.raised
  /\ rand_op.k >= 3 /\ rand_op.value = rand_op.k
  /\ calls >= 2

\* x + y mod 2^32
Add32(x, y) ==
  LET low == x.lo + y.lo
  IN [hi |-> (x.hi + y.hi + low \div W16) % W16, lo |-> low % W16]

\* n * x mod 2^32 by doubling along the binary digits of n
RECURSIVE Times32(_, _)
Times32(n, x) ==
  IF n = 0 THEN [hi |-> 0, lo |-> 0]
  ELSE CHOOSE product \in
         {IF n % 2 = 1 THEN Add32(Add32(half, half), x)
          ELSE Add32(half, half) : half \in {Times32(n \div 2, x)}} : TRUE

\* x' = (134775813 * x + 1) mod 2^32
LcgSuccessor(x) == Add32(Times32(134775813, x), [hi |-> 0, lo |-> 1])

\* bit i (0 the least significant) of the upper 16 bits of a 32-bit number
UpperBit(num, i) == (num.hi \div Pow2(i)) % 2

RECURSIVE MajorityNumberFrom(_, _)
MajorityNumberFrom(nums, i) ==
  IF i = 16 THEN 0
  ELSE (IF Cardinality({j \in 1..Len(nums) : UpperBit(nums[j], i) = 1}) >= 3
          THEN Pow2(i) ELSE 0) + MajorityNumberFrom(nums, i + 1)

\* the 16-bit number whose bit i is 1 iff at least 3 of the numbers have
\* bit i set in their upper 16 bits
MajorityNumber(nums) == MajorityNumberFrom(nums, 0)

\* 1, 134775814, 3698175007, 870078620, 1172187917
SeedZeroOutputs ==
  <<[hi |-> 0, lo |-> 1], [hi |-> 2056, lo |-> 33798],
    [hi |-> 56429, lo |-> 44063], [hi |-> 13276, lo |-> 22684],
    [hi |-> 17886, lo |-> 11021]>>

\* C20: each randint(k) that returns consumes exactly the next five outputs
\* of x' = (134775813 * x + 1) mod 2^32, however many calls came before, and
\* returns (m mod k) + 1 for the majority number m of their upper 16 bits;
\* from seed 0 the first five outputs are 1, 134775814, 3698175007,
\* 870078620, 1172187917, m is 76 and the first randint(4) returns 1.
C20_FiveDrawsMajorityBits ==
  [][\A k \in 1..MaxK :
       RandInt(k) =>
         \E x1 \in {LcgSuccessor(rand)} :
         \E x2 \in {LcgSuccessor(x1)} :
         \E x3 \in {LcgSuccessor(x2)} :
         \E x4 \in {LcgSuccessor(x3)} :
         \E x5 \in {LcgSuccessor(x4)} :
         \E m \in {MajorityNumber(<<x1, x2, x3, x4, x5>>)} :
            /\ rand_op'.random_num = <<x1, x2, x3, x4, x5>>
            /\ rand' = x5
            /\ rand_op'.m = m
            /\ ~rand_op'.raised
            /\ rand_op'.value = (m % k) + 1
            /\ (rand = [hi |-> 0, lo |-> 0]) =>
                 /\ rand_op'.random_num = SeedZeroOutputs
                 /\ rand_op'.m = 76
                 /\ (k = 4 => rand_op'.value = 1)]_vars

C20_Witness ==
  /\ rand_op.name = "randint" /\ calls = 1
  /\ rand_op.random_num = SeedZeroOutputs
  /\ rand_op.m = 76 /\ rand_op.k = 4 /\ rand_op.value = 1
\* ------------------------------------------------------- game claims
\* the inventory a tree holds: buy price, potion name and quantity of each node
Inventory(n) ==
  {<<m.key, m.item.potion.name, m.item.potion.quantity>> : m \in Nodes(n)}

\* C13: after choose_potions_for_vendors returns, the inventory tree holds
\* the same keys and the same potion quantities as just before the call,
\* whatever set_total_potion_data and add_potions_to_inventory calls came
\* before (several add_potions_to_inventory calls included).
C13_ChooseRestoresInventory ==
  [][\A num_vendors \in 0..MaxVendors :
       (/\ game_op'.name = "choose_potions_for_vendors"
        /\ game_op'.num_vendors = num_vendors
        /\ game_op'.raised = "none"
        /\ ChoosePotionsForVendors(num_vendors)) =>
         /\ Inventory(root') = Inventory(root)
         /\ length' = length]_vars

\* the generator state before the x-th randint call of a
\* choose_potions_for_vendors that starts in state seed: every call before
\* it took five numbers
SeedBefore(seed, x) ==
  IF x = 1 THEN seed ELSE next_numbers(seed, 5 * (x - 1))[5 * (x - 1)]

\* the elements of the inventory not among the first x - 1 pairs chosen
NotYetChosen(inv, result, x) ==
  {e \in inv : \A j \in 1..(x - 1) : e[2] # result[j][1]}

C15_SolveGameReturnsOnePerDay ==
  game_op.name = "solve_game" =>
    /\ game_op.raised = "none"
    /\ Len(game_op.result) = game_op.days

\* C27: every kth_largest call of choose_potions_for_vendors passes a rank k
\* with 1 <= k <= number of keys the inventory tree holds at that moment;
\* when the tree runs empty before num_vendors potions are chosen, the loop
\* stops with the ValueError of randint(0) and does not query the empty
\* tree.
C27_ChooseQueriesValidRanks ==
  [][\A num_vendors \in 0..MaxVendors :
       (/\ game_op'.name = "choose_potions_for_vendors"
        /\ game_op'.num_vendors = num_vendors
        /\ ChoosePotionsForVendors(num_vendors)) =>
         \E steps \in {choose_loop(TheGame, num_vendors, <<>>).steps} :
           /\ \A i \in 1..Len(steps) :
                /\ steps[i].asked = steps[i].size
                /\ steps[i].queried =>
                     (1 <= steps[i].k /\ steps[i].k <= steps[i].size)
                /\ steps[i].size = 0 =>
                     (steps[i].raised /\ ~steps[i].queried)
           /\ num_vendors > Size(root) =>
                /\ game_op'.raised = "ValueError"
                /\ Len(steps) = Size(root) + 1
                /\ steps[Len(steps)].asked = 0
                /\ steps[Len(steps)].raised
                /\ ~steps[Len(steps)].queried
                /\ Len(game_op'.result) = Size(root)
                /\ root' = NIL]_vars

C27_Witness ==
  /\ game_op.name = "choose_potions_for_vendors"
  /\ game_op.raised = "ValueError"
  /\ game_op.num_vendors = 3
  /\ Len(game_op.result) = 2
  /\ root = NIL
  /\ length = 0

\* ------------------------------------------- further selection claims

\* C23 as claimed: on any tree reached by successful inserts and deletes, for
\* every k in 1..size the descent of kth_largest never takes the branch that
\* returns the current node because the needed child is absent; it ends at a
\* node where the adjusted k equals right count + 1.
C23_FallbackOnlyOutOfRange ==
  (failed_deletes = 0 /\ root # NIL) =>
    \A k \in 1..Size(root) :
      \E res \in {kth_largest(root, k)} :
        /\ ~res.fallback
        /\ ~res.error
        /\ res.node # NIL

\* C25: after any sequence of successful inserts and deletes, at every node
\* the stored right (left) counter of a present right (left) child is the
\* number of nodes of that child's subtree, so get_right_counter and
\* get_left_counter, 0 for an absent child, are the true subtree sizes at
\* every node, stale stored fields included.
C25_CountersOfPresentChildren ==
  failed_deletes = 0 =>
    \A m \in Nodes(root) :
      /\ m.right # NIL => m.right_counter = Size(m.right)
      /\ m.left # NIL => m.left_counter = Size(m.left)
      /\ get_right_counter(m) = Size(m.right)
      /\ get_left_counter(m) = Size(m.left)

C25_Witness ==
  /\ op.name = "delete"
  /\ ~op.raised
  /\ failed_deletes = 0
  /\ StaleCounter(root)
  /\ \E m \in Nodes(root) :
       m.right # NIL /\ m.left # NIL /\ m.right_counter + m.left_counter >= 2

\* the result of one rotation that rebalance asks for
Rotate(rot) ==
  IF rot.rotate = "left" THEN left_rotate(rot.on) ELSE right_rotate(rot.on)

\* the rotation is called on a node that has the child it lifts, returns a
\* tree, and that tree holds the same (key, item) nodes in the same order
RotationKeeps(rot) ==
  /\ rot.on # NIL
  /\ rot.rotate = "left" => rot.on.right # NIL
  /\ rot.rotate = "right" => rot.on.left # NIL
  /\ \E out \in {Rotate(rot)} :
       /\ out # NIL
       /\ InOrder(out) = InOrder(rot.on)
       /\ Size(out) = Size(rot.on)
       /\ KeysOf(out) = KeysOf(rot.on)

\* every rotation of rebalance(current) keeps the nodes, and what rebalance
\* returns is the result of the last of them (current itself without one)
RebalanceKeeps(current) ==
  \E rs \in {rebalance_rotations(current)} :
    /\ \A i \in 1..Len(rs) : RotationKeeps(rs[i])
    /\ rebalance(current) = IF Len(rs) = 0 THEN current ELSE Rotate(rs[Len(rs)])
    /\ InOrder(rebalance(current)) = InOrder(current)

\* C24: every rotation made by rebalance during an insert or a delete
\* (single left, single right, right-left, left-right) keeps the in-order
\* sequence of keys and the set of nodes of the rotated subtree, and
\* rebalance calls left_rotate only on a node with a right child and
\* right_rotate only on a node with a left child, so that no rotation
\* returns an empty result.
C24_RotationsKeepNodes ==
  [][\A key \in Keys :
       /\ Insert(key, ItemOf(key)) =>
            \E res \in {insert_aux(root, key, ItemOf(key))} :
              \A i \in 1..Len(res.calls) : RebalanceKeeps(res.calls[i])
       /\ Delete(key) =>
            \E res \in {delete_aux(root, key)} :
              \A i \in 1..Len(res.calls) : RebalanceKeeps(res.calls[i])]_vars

C24_Witness ==
  /\ op.name = "delete"
  /\ ~op.raised
  /\ op.rotations = 2
  /\ length = MaxKey - 1
  /\ Height(root) = 2

\* the ranks tried around the valid range 1..size
RankMargin == 3

\* C26: on any non-empty tree reached by successful inserts and deletes,
\* kth_largest(k) does not fail for an out-of-range rank: for every k above
\* the tree size it returns the node with the smallest key and for every
\* k <= 0 the node with the largest key.
C26_OutOfRangeRankClamps ==
  (failed_deletes = 0 /\ root # NIL) =>
    /\ \A k \in (Size(root) + 1)..(Size(root) + RankMargin) :
         \E res \in {kth_largest(root, k)} :
           /\ ~res.error
           /\ res.node # NIL
           /\ res.node.key = SortedDesc(KeysOf(root))[Size(root)]
    /\ \A k \in (0 - RankMargin)..0 :
         \E res \in {kth_largest(root, k)} :
           /\ ~res.error
           /\ res.node # NIL
           /\ res.node.key = SortedDesc(KeysOf(root))[1]

C26_Witness ==
  /\ op.name = "kth_largest"
  /\ ~op.raised
  /\ failed_deletes = 0
  /\ op.k = 0
  /\ Size(root) >= 3
  /\ StaleCounter(root)
  /\ ret = SortedDesc(KeysOf(root))[1]
  /\ ret # root.key

\* C28: on every non-empty tree and for every integer k, kth_largest(k)
\* ends after visiting at most height(root) nodes, each step going from a
\* node to one of its children.
C28_VisitsAtMostHeight ==
  root # NIL =>
    \A k \in (0 - RankMargin)..(Size(root) + RankMargin) :
      \E res \in {kth_largest(root, k)} :
        /\ res.visited >= 1
        /\ res.visited <= Height(root)

C28_Witness ==
  /\ op.name = "kth_largest"
  /\ Height(root) = 3
  /\ kth_largest(root, op.k).visited = 3
  /\ kth_largest(root, op.k).node.key = ret
  /\ kth_largest(root, op.k).fallback

\* ------------------------------------------------------ primes claim
IsPrime(n) == n > 1 /\ \A d \in 2..(n - 1) : n % d # 0

\* C21: for every k > 2 largest_prime(k) returns the largest prime strictly
\* less than k; for k <= 2 it raises ValueError.
C21_LargestPrimeBelowK ==
  prime_op.name = "largest_prime" =>
    IF prime_op.k <= 2 THEN prime_op.raised
    ELSE /\ ~prime_op.raised
         /\ IsPrime(prime_op.value)
         /\ prime_op.value < prime_op.k
         /\ \A q \in (prime_op.value + 1)..(prime_op.k - 1) : ~IsPrime(q)

C21_Witness ==
  /\ prime_op.name = "largest_prime" /\ ~prime_op.raised
  /\ prime_op.k = 100 /\ prime_op.value = 97
====
